---- MODULE Spec2Model ----
(***************************************************************************)
(* Mention ingestion and processing pipeline of Roast-Bob.                 *)
(*                                                                         *)
(* MentionService (src/mentions_service.py) polls BlueskyClient            *)
(* (src/clients/bluesky_client.py) for notifications, drives each mention  *)
(* through OpenAIClient (src/clients/openai_client.py), posts the reply    *)
(* and records the mention uri in the Redis set "processed_mentions".      *)
(***************************************************************************)
EXTENDS Integers, Sequences, FiniteSets, TLC

\* ------------------------------------------------------------------------
\* Bounds of the model
\* ------------------------------------------------------------------------
MaxPolls == 3
MaxFaults == 1
MaxMarks == 2
MaxBatch == 2
MaxDays == 8
MaxCursor == 3
MaxSets == 3
MaxCalls == 4
MaxClock == 120
ClockStep == 20
MaxIssued == 5
MaxPollTasks == 3
MaxOpLog == 2
MaxFeed == 2
MaxCycles == 3
MaxLoops == 4
MaxMinutes == 2

\* The clock advances in steps of one day.
Day == 24 * 60 * 60

\* ------------------------------------------------------------------------
\* Program constants
\* ------------------------------------------------------------------------
limit == 20
\* Variant of max_retries: one attempt fewer.
max_retries_two == 3 - 1
\* Variant of max_retries: one attempt more.
max_retries_four == 3 + 1
max_retries == 3
max_tries == 3
TTL == 7 * 24 * 60 * 60
\* RateLimiter(max_requests = 3, window_minutes = 1)
max_requests == 3
window_minutes == 1

None == "None"
NoCursor == 0
NoTime == -1
PROCESSED_SET == "processed_mentions"
CURSOR_KEY == "last_cursor_state"

\* ------------------------------------------------------------------------
\* The platform's notifications
\* ------------------------------------------------------------------------
Ids == {"A", "B", "C"}

ParentOf(uri) == IF uri = "A" THEN "PA" ELSE IF uri = "C" THEN "PC" ELSE None

Notifications ==
    {[uri |-> u, reason |-> "mention", parent |-> ParentOf(u)] : u \in Ids}
    \cup {[uri |-> "L", reason |-> "like", parent |-> None]}

Responses == UNION {[1..k -> Notifications] : k \in 0..MaxBatch}

\* Cursors are opaque to the client; the platform orders them.  OldCursor is
\* a cursor left in Redis by an earlier deployment, and the response to the
\* k-th poll carries either no cursor or the cursor OldCursor + k.
OldCursor == 1
StoredCursors == {NoCursor, OldCursor}
ResponseCursors(k) == {NoCursor, OldCursor + k}

NoMention == [uri |-> None, reply_to |-> None]

RECURSIVE FilterMentions(_)
FilterMentions(ns) ==
    IF ns = <<>> THEN <<>>
    ELSE IF Head(ns).reason = "mention"
         THEN <<[uri |-> Head(ns).uri, reply_to |-> Head(ns).parent]>>
              \o FilterMentions(Tail(ns))
         ELSE FilterMentions(Tail(ns))

Truncate(s, n) == IF Len(s) <= n THEN s ELSE SubSeq(s, 1, n)

\* The list returned by the get_mentions definition that the class keeps
\* (the second one, which overrides the first).
\* Variant: no test of the notification's reason.
MentionsOfUnfiltered(ns) ==
    [i \in 1..Len(ns) |-> [uri |-> ns[i].uri, reply_to |-> ns[i].parent]]
MentionsOf(ns) == Truncate(FilterMentions(ns), limit)

\* Cursor parameter of the request issued by get_mentions; NoCursor when the
\* request carries none.
RequestCursor(stored) == NoCursor

\* _last_cursor after get_mentions received a response carrying cursor c.
\* Variant: the assignment made by the overridden first definition.
CursorAfterFetchFirstDef(stored, c) == c
CursorAfterFetch(stored, c) == stored

\* BlueskyClient.set_cursor
SetCursor(c) == c

\* ------------------------------------------------------------------------
\* Redis
\* ------------------------------------------------------------------------
RedisKeys == {PROCESSED_SET, CURSOR_KEY} \cup Ids

VARIABLES
    processed,      \* members of the Redis set PROCESSED_SET
    expiry,         \* Redis key -> absolute expiry time, NoTime when none
    redisCursor,    \* cursor stored under CURSOR_KEY, NoCursor when absent
    now             \* wall clock, seconds

Exists(key, members, rc) ==
    \/ key = PROCESSED_SET /\ members # {}
    \/ key = CURSOR_KEY /\ rc # NoCursor

Sismember(members, x) == x \in members
Sadd(members, x) == members \cup {x}

\* EXPIRE sets a timeout on an existing key and does nothing for a key that
\* does not exist.
Expire(exp, key, seconds, members, rc, t) ==
    IF Exists(key, members, rc) THEN [exp EXCEPT ![key] = t + seconds] ELSE exp

Expired(exp, key, t) == exp[key] # NoTime /\ exp[key] <= t

\* Redis drops a key once its timeout has passed.
MembersAt(members, exp, t) ==
    IF Expired(exp, PROCESSED_SET, t) THEN {} ELSE members

ExpiryAt(exp, t) ==
    [k \in RedisKeys |-> IF Expired(exp, k, t) THEN NoTime ELSE exp[k]]

\* mentions_service.py lines 81-82: the key handed to EXPIRE is the mention uri.
ExpireKey(uri) == uri

\* Variants of the SADD of line 81: one that adds nothing to PROCESSED_SET,
\* one that removes a member already present.
MarkedMembersLost(members, uri) == members
MarkedMembersToggle(members, uri) ==
    IF uri \in members THEN members \ {uri} ELSE members \cup {uri}
MarkedMembers(members, uri) == Sadd(members, uri)
MarkedExpiry(exp, members, rc, uri, t) ==
    Expire(exp, ExpireKey(uri), TTL, MarkedMembers(members, uri), rc, t)

\* ------------------------------------------------------------------------
\* The service
\* ------------------------------------------------------------------------
VARIABLES
    cursor,             \* BlueskyClient._last_cursor
    pc,                 \* position of the polling loop
    response,           \* notifications of the response being worked on
    mentions,           \* mentions of the batch not yet iterated over
    processed_count,    \* local of check_and_process_mentions
    fetchTries,         \* failed tries of get_mentions under backoff
    cur,                \* mention handed to process_mention
    parent_post,        \* result of _get_parent_post
    post_uri,           \* value returned by post_skeet to process_mention
    reply_ref,          \* post the record created by post_skeet replies to
    current_retry,      \* local of OpenAIClient._make_api_call
    postTries,          \* failed tries of post_skeet under backoff
    mentions_processed, \* SERVICE_STATE
    last_check,         \* SERVICE_STATE
    last_error          \* SERVICE_STATE

\* Observations of the run
VARIABLES
    polls,          \* poll cycles started
    faults,         \* crashes, Redis errors and failed attempts so far
    skipped,        \* uris the dedup check passed over in the cycle under way
    raised,         \* exception caught by the except clause of process_mention
    genCalls,       \* generation API calls of the attempt under way
    postCalls,      \* create_record calls of the attempt under way
    sleeps,         \* delays _make_api_call slept in the attempt under way
    replies,        \* uri -> successful returns of post_skeet for that mention
    commits,        \* uri -> SADD calls for that uri
    failedAt,       \* uri -> poll cycle of its last failed attempt, 0 when none
    orphan,         \* uri -> the process died between post and commit of it
    markedAt,       \* uri -> time of the last mark, NoTime when never
    lastReq,        \* cursor parameter of the last notifications request
    lastResp,       \* cursor carried by the last notifications response
    incRun,         \* consecutive responses that carried increasing cursors
    cursorAtCrash,  \* <<_last_cursor>> of the process that died, until the
                    \* restarted process has fetched; <<>> otherwise
    lastOp          \* last operation applied to the store

\* Callers of the cursor methods of BlueskyClient
VARIABLES
    base,           \* poller -> cursor it read with get_cursor_state
    held,           \* poller -> cursor of the response to its fetch
    ppc,            \* poller -> position: "start", "read" or "fetched"
    setCalls,       \* calls of set_cursor so far
    setBy           \* <<poller, base, cursor before>> of the last set_cursor

\* RateLimiter (src/blusky_api/rate_limiter.py)
VARIABLES
    request_timestamps, \* RateLimiter.request_timestamps: endpoint -> list
    clock,              \* datetime.now(), seconds
    lpc,                \* position of the wrapper of limit_request
    endpoint,           \* endpoint of the call in the wrapper
    calls,              \* endpoint -> calls of the wrapper begun
    admitted,           \* list of the endpoint as admission left it
    wait_seconds,       \* time the last _wait_if_needed slept, 0 when none
    outcome,            \* last thing the limiter did
    remaining           \* last value returned by get_remaining_requests

\* The task of continuous_mention_check
VARIABLES
    cancelled       \* <<position, uri in process_mention>> where cancel() hit

\* SchedulerService (src/services/scheduler.py) and its job loops
VARIABLES
    is_running,     \* SchedulerService.is_running
    tasks,          \* SchedulerService.tasks: name -> loop (asyncio task)
    intervals,      \* SchedulerService.intervals: name -> minutes
    last_run,       \* SchedulerService.last_run: name -> time
    loops,          \* loop -> its job, position, sleep left, pending cancel,
                    \* outcome of its last body
    minutes,        \* datetime.now(), minutes
    blocking,       \* loop whose body holds the thread in a synchronous
                    \* wait, 0 when the event loop is free
    stop_at,        \* stop(): index of the item it awaits, 0 when not in stop
    stop_task,      \* stop(): the loop it awaits, 0 when none
    interrupted,    \* loops whose body was ended part-way by a cancel
    status,         \* <<name, result>> of the last get_task_status
    everScheduled   \* names schedule_task was called with

\* Concurrent callers of one function wrapped by limit_request
VARIABLES
    callers,        \* caller -> its position in wrapper and its wake time
    issued          \* times at which func was called, in order

\* The tasks of continuous_mention_check and SERVICE_STATE
VARIABLES
    app,                \* the application: "init", "up" or "down"
    state_is_running,   \* SERVICE_STATE["is_running"]
    background_task,    \* SERVICE_STATE["background_task"], 0 for None
    poll_tasks          \* task -> its position and whether a cancel is pending

\* Calls of the BlueskyClient operations that carry the backoff decorator
VARIABLES
    op_call,        \* the call under way: operation, platform calls made,
                    \* outcome of the last one, what the caller got
    op_log          \* the calls that have ended, in order

\* TrendAnalyzer (src/services/trend_analyzer.py)
VARIABLES
    last_analyzed_timestamp, \* TrendAnalyzer.last_analyzed_timestamp
    analyzed_posts,     \* value returned by the last analyze_feed
    analyzed,           \* uris whose analysis succeeded in some cycle
    last_ok,            \* uris whose analysis succeeded in the last cycle
    cycles              \* calls of analyze_feed so far

redisVars == <<processed, expiry, redisCursor, now>>
cycleVars == <<response, mentions, processed_count, fetchTries, skipped>>
attemptVars == <<cur, parent_post, post_uri, reply_ref, current_retry,
                 postTries, raised, genCalls, postCalls, sleeps>>
stateVars == <<mentions_processed, last_check, last_error>>
envVars == <<polls, faults>>
fetchObs == <<lastReq, lastResp, incRun, cursorAtCrash>>
eventObs == <<replies, commits, failedAt, orphan, markedAt>>
cursorApiVars == <<base, held, ppc, setCalls, setBy>>
limiterVars == <<request_timestamps, clock, lpc, endpoint, calls, admitted,
                 wait_seconds, outcome, remaining>>
stopVars == <<cancelled>>
schedVars == <<is_running, tasks, intervals, last_run, loops, minutes,
               blocking, stop_at, stop_task, interrupted, status,
               everScheduled>>
concVars == <<callers, issued>>
pollVars == <<app, state_is_running, background_task, poll_tasks>>
backoffVars == <<op_call, op_log>>
trendVars == <<last_analyzed_timestamp, analyzed_posts, analyzed, last_ok,
               cycles>>
moreVars == <<concVars, pollVars, backoffVars, trendVars>>
sideVars == <<stopVars, schedVars, moreVars>>
apiVars == <<cursorApiVars, limiterVars, sideVars>>
otherVars == <<lastOp, apiVars>>
vars == <<redisVars, cursor, pc, cycleVars, attemptVars, stateVars, envVars,
          fetchObs, eventObs, otherVars>>

\* The dedup check of check_and_process_mentions (line 78).
\* Variants: a check against an empty set, and a check that also counts ids
\* whose attempt failed.
IsProcessedNever(uri) == Sismember({}, uri)
IsProcessedOrAttempted(uri) == Sismember(processed, uri) \/ failedAt[uri] > 0
IsProcessed(uri) == Sismember(processed, uri)

NoOp == <<"none", None>>

\* ------------------------------------------------------------------------
\* Initial state of the callers of the cursor methods and of RateLimiter
\* ------------------------------------------------------------------------
Pollers == {"P1", "P2"}
Endpoints == {"default", "feed"}

InitCursorApi ==
    /\ base = [p \in Pollers |-> NoCursor]
    /\ held = [p \in Pollers |-> NoCursor]
    /\ ppc = [p \in Pollers |-> "start"]
    /\ setCalls = 0
    /\ setBy = <<>>

\* RateLimiter.__init__: no endpoint has a list yet.
InitLimiter ==
    /\ request_timestamps = <<>>
    /\ clock = 0
    /\ lpc = "idle"
    /\ endpoint = None
    /\ calls = [e \in Endpoints |-> 0]
    /\ admitted = <<>>
    /\ wait_seconds = 0
    /\ outcome = "none"
    /\ remaining = 0

NewPost == "at://bot/app.bsky.feed.post/new"

\* MentionService.__init__ / _initialize_from_redis: the cursor found in
\* Redis, if any, is handed to set_cursor.
InitialCursor(rc) == IF rc # NoCursor THEN SetCursor(rc) ELSE NoCursor

\* Value returned by the except clause of process_mention.
\* Variant: the clause returning True.
ExceptReturnTrue == TRUE
ExceptReturn == FALSE

InitStop == cancelled = <<>>

\* Threads that call the wrapped function at the same time.
Callers == {"T1", "T2"}

PollTasks == 1..MaxPollTasks

\* SERVICE_STATE as the module defines it; no task exists yet.
InitPoll ==
    /\ app = "init"
    /\ state_is_running = FALSE
    /\ background_task = 0
    /\ poll_tasks = [t \in PollTasks |-> [at |-> "none", cancel |-> FALSE]]

\* No call of a decorated operation under way.
NoCall == [op |-> None, tries |-> 0, err |-> "none", got |-> "none"]

InitBackoff ==
    /\ op_call = NoCall
    /\ op_log = <<>>

\* TrendAnalyzer.__init__
InitTrend ==
    /\ last_analyzed_timestamp = NoTime
    /\ analyzed_posts = <<>>
    /\ analyzed = {}
    /\ last_ok = {}
    /\ cycles = 0

InitCallers ==
    /\ callers = [c \in Callers |-> [at |-> "idle", wake |-> 0]]
    /\ issued = <<>>

\* The jobs main.py schedules, in the order startup_event schedules them,
\* and their interval_minutes.
JobOrder == <<"trend_analysis", "content_generation">>
Jobs == {JobOrder[i] : i \in 1..Len(JobOrder)}
IntervalOf == [trend_analysis |-> 2, content_generation |-> 1]

LoopIds == 1..MaxLoops

\* A loop id no task was created for.
NoLoop == [name |-> None, at |-> "none", timer |-> 0, cancel |-> FALSE,
           last |-> "none"]

\* SchedulerService.__init__
InitSched ==
    /\ is_running = FALSE
    /\ tasks = <<>>
    /\ intervals = <<>>
    /\ last_run = <<>>
    /\ loops = [l \in LoopIds |-> NoLoop]
    /\ minutes = 0
    /\ blocking = 0
    /\ stop_at = 0
    /\ stop_task = 0
    /\ interrupted = {}
    /\ status = <<>>
    /\ everScheduled = {}

Init ==
    /\ processed = {}
    /\ expiry = [k \in RedisKeys |-> NoTime]
    /\ redisCursor \in StoredCursors
    /\ now = 0
    /\ cursor = InitialCursor(redisCursor)
    /\ pc = "idle"
    /\ response = <<>>
    /\ mentions = <<>>
    /\ processed_count = 0
    /\ fetchTries = 0
    /\ skipped = {}
    /\ cur = NoMention
    /\ parent_post = None
    /\ post_uri = None
    /\ reply_ref = None
    /\ current_retry = 0
    /\ postTries = 0
    /\ raised = None
    /\ genCalls = 0
    /\ postCalls = 0
    /\ sleeps = <<>>
    /\ mentions_processed = 0
    /\ last_check = NoTime
    /\ last_error = FALSE
    /\ polls = 0
    /\ faults = 0
    /\ replies = [u \in Ids |-> 0]
    /\ commits = [u \in Ids |-> 0]
    /\ failedAt = [u \in Ids |-> 0]
    /\ orphan = [u \in Ids |-> FALSE]
    /\ markedAt = [u \in Ids |-> NoTime]
    /\ lastReq = NoCursor
    /\ lastResp = NoCursor
    /\ incRun = 0
    /\ cursorAtCrash = <<>>
    /\ lastOp = NoOp
    /\ InitCursorApi
    /\ InitLimiter
    /\ InitStop
    /\ InitSched
    /\ InitCallers
    /\ InitPoll
    /\ InitBackoff
    /\ InitTrend

\* The locals of check_and_process_mentions end with the call.
CycleDone ==
    /\ response' = <<>>
    /\ mentions' = <<>>
    /\ processed_count' = 0
    /\ fetchTries' = 0
    /\ skipped' = {}

\* The locals of process_mention, and of the calls it made, end with it.
AttemptDone ==
    /\ cur' = NoMention
    /\ parent_post' = None
    /\ post_uri' = None
    /\ reply_ref' = None
    /\ current_retry' = 0
    /\ postTries' = 0
    /\ raised' = None
    /\ genCalls' = 0
    /\ postCalls' = 0
    /\ sleeps' = <<>>

\* continuous_mention_check: one iteration of the loop begins.
StartCycle ==
    /\ pc = "idle"
    /\ polls < MaxPolls
    /\ polls' = polls + 1
    /\ pc' = "fetch"
    /\ UNCHANGED <<redisVars, cursor, cycleVars, attemptVars, stateVars,
                   faults, fetchObs, eventObs, otherVars>>

\* The except clause of check_and_process_mentions.
CycleError ==
    /\ last_error' = TRUE
    /\ pc' = "idle"
    /\ CycleDone
    /\ AttemptDone
    /\ UNCHANGED <<mentions_processed, last_check>>

NextRun(c) ==
    IF c = NoCursor THEN 0
    ELSE IF incRun > 0 /\ c > lastResp
         THEN (IF incRun < 3 THEN incRun + 1 ELSE 3)
         ELSE 1

\* get_mentions returns: list_notifications answered with notifications ns
\* and cursor c.
GetMentions(ns, c) ==
    /\ pc = "fetch"
    /\ lastReq' = RequestCursor(cursor)
    /\ lastResp' = c
    /\ incRun' = NextRun(c)
    /\ cursorAtCrash' = <<>>
    /\ cursor' = CursorAfterFetch(cursor, c)
    /\ response' = ns
    /\ mentions' = MentionsOf(ns)
    /\ fetchTries' = 0
    /\ pc' = "fetched"
    /\ UNCHANGED <<redisVars, processed_count, skipped, attemptVars,
                   stateVars, envVars, eventObs, otherVars>>

\* list_notifications raises AtProtocolError: backoff retries get_mentions
\* until max_tries calls have failed, then the error reaches the cycle.
GetMentionsTransient ==
    /\ pc = "fetch"
    /\ IF fetchTries + 1 < max_tries
       THEN /\ fetchTries' = fetchTries + 1
            /\ UNCHANGED <<pc, response, mentions, processed_count,
                           skipped, attemptVars, stateVars>>
       ELSE CycleError
    /\ UNCHANGED <<redisVars, cursor, envVars, fetchObs, eventObs, otherVars>>

\* list_notifications raises an error backoff does not retry.
GetMentionsError ==
    /\ pc = "fetch"
    /\ CycleError
    /\ UNCHANGED <<redisVars, cursor, envVars, fetchObs, eventObs, otherVars>>

\* "if not mentions: return"
CheckEmpty ==
    /\ pc = "fetched"
    /\ pc' = IF mentions = <<>> THEN "idle" ELSE "loop"
    /\ UNCHANGED <<redisVars, cursor, cycleVars, attemptVars, stateVars,
                   envVars, fetchObs, eventObs, otherVars>>

\* The dedup check passes over a mention found in the processed set.
SkipProcessed ==
    /\ pc = "loop"
    /\ mentions # <<>>
    /\ IsProcessed(Head(mentions).uri)
    /\ mentions' = Tail(mentions)
    /\ skipped' = skipped \cup {Head(mentions).uri}
    /\ UNCHANGED <<redisVars, cursor, pc, response, processed_count, fetchTries,
                   attemptVars, stateVars, envVars, fetchObs, eventObs,
                   otherVars>>

\* The dedup check lets a mention through: process_mention is entered.
BeginProcess ==
    /\ pc = "loop"
    /\ mentions # <<>>
    /\ ~IsProcessed(Head(mentions).uri)
    /\ cur' = Head(mentions)
    /\ pc' = IF Head(mentions).reply_to # None THEN "parent" ELSE "generate"
    /\ UNCHANGED <<redisVars, cursor, cycleVars, parent_post, post_uri, reply_ref,
                   current_retry, postTries, raised, genCalls, postCalls, sleeps,
                   stateVars, envVars, fetchObs, eventObs, otherVars>>

\* redis_client.sismember raises.
CheckRedisError ==
    /\ pc = "loop"
    /\ mentions # <<>>
    /\ faults < MaxFaults
    /\ faults' = faults + 1
    /\ CycleError
    /\ UNCHANGED <<redisVars, cursor, polls, fetchObs, eventObs, otherVars>>

\* The for loop is exhausted.
EndCycle ==
    /\ pc = "loop"
    /\ mentions = <<>>
    /\ mentions_processed' = mentions_processed + processed_count
    /\ last_check' = now
    /\ pc' = "idle"
    /\ CycleDone
    /\ UNCHANGED <<redisVars, cursor, attemptVars, last_error, envVars,
                   fetchObs, eventObs, otherVars>>

\* Value of _get_parent_post(uri): the parent when get_post found it, None
\* when get_post found nothing or failed (get_post returns None on any error).
ParentContext(uri, found) == IF found THEN uri ELSE None

\* Where process_mention goes after _get_parent_post returned.
\* Variant: a parent that was not resolved ends the attempt.
AfterParentAbort(found) == IF found THEN "generate" ELSE "failed"
AfterParent(found) == "generate"

\* _get_parent_post: get_post returns the parent or None, never raises.
GetParentPost(found) ==
    /\ pc = "parent"
    /\ parent_post' = ParentContext(cur.reply_to, found)
    /\ pc' = AfterParent(found)
    /\ UNCHANGED <<redisVars, cursor, cycleVars, cur, sleeps, post_uri, reply_ref,
                   current_retry,
                   postTries, raised, genCalls, postCalls, stateVars, envVars,
                   fetchObs, eventObs, otherVars>>

\* An exception reaches the except clause of process_mention.
ProcessFailed(exc) ==
    /\ faults < MaxFaults
    /\ faults' = faults + 1
    /\ raised' = exc
    /\ pc' = "failed"

\* The except clause logs and returns; on False the loop of
\* check_and_process_mentions moves on to the next mention.
ReturnFalse ==
    /\ pc = "failed"
    /\ IF ExceptReturn
       THEN /\ pc' = "commit"
            /\ UNCHANGED <<mentions, attemptVars, failedAt>>
       ELSE /\ failedAt' = [failedAt EXCEPT ![cur.uri] = polls]
            /\ mentions' = Tail(mentions)
            /\ pc' = "loop"
            /\ AttemptDone
    /\ UNCHANGED <<redisVars, cursor, response, processed_count, fetchTries,
                   skipped, stateVars, envVars, fetchObs, replies, commits, orphan,
                   markedAt, otherVars>>

\* _make_api_call returns a completion.
GenerateOk ==
    /\ pc = "generate"
    /\ genCalls' = genCalls + 1
    /\ pc' = "post"
    /\ UNCHANGED <<redisVars, cursor, cycleVars, cur, sleeps, parent_post, post_uri, reply_ref,
                   current_retry, postTries, raised, postCalls, stateVars,
                   envVars, fetchObs, eventObs, otherVars>>

\* Seconds _make_api_call sleeps before the retry that follows timeout k
\* ("await asyncio.sleep(1)").
RetryDelay(k) == 1

\* The API call times out: retried after a sleep until max_retries calls have
\* timed out, then TimeoutError is raised.
GenerateTimeout ==
    /\ pc = "generate"
    /\ genCalls' = genCalls + 1
    /\ current_retry' = current_retry + 1
    /\ IF current_retry + 1 = max_retries
       THEN /\ ProcessFailed("TimeoutError")
            /\ UNCHANGED sleeps
       ELSE /\ sleeps' = Append(sleeps, RetryDelay(current_retry + 1))
            /\ UNCHANGED <<pc, faults, raised>>
    /\ UNCHANGED <<redisVars, cursor, cycleVars, cur, parent_post, post_uri, reply_ref,
                   postTries, postCalls, stateVars, polls, fetchObs, eventObs,
                   otherVars>>

\* The API call, or reading the completion, raises anything else.
GenerateError ==
    /\ pc = "generate"
    /\ genCalls' = genCalls + 1
    /\ ProcessFailed("Exception")
    /\ UNCHANGED <<redisVars, cursor, cycleVars, cur, sleeps, parent_post, post_uri, reply_ref,
                   current_retry, postTries, postCalls, stateVars, polls,
                   fetchObs, eventObs, otherVars>>

\* The reply_to argument process_mention hands to post_skeet (line 111).
ReplyTo(mention) == mention.reply_to

\* post_skeet lines 150-173: the record carries a reply reference only when
\* reply_to is set and get_post found that post.
ReplyRef(reply_to, found) == IF reply_to # None /\ found THEN reply_to ELSE None

\* post_skeet returns the uri of the new post.
PostOk(found) ==
    /\ pc = "post"
    /\ postCalls' = postCalls + 1
    /\ post_uri' = NewPost
    /\ reply_ref' = ReplyRef(ReplyTo(cur), found)
    /\ replies' = [replies EXCEPT ![cur.uri] = @ + 1]
    /\ pc' = "commit"
    /\ UNCHANGED <<redisVars, cursor, cycleVars, cur, sleeps, parent_post,
                   current_retry, postTries, raised, genCalls, stateVars,
                   envVars, fetchObs, commits, failedAt, orphan, markedAt,
                   otherVars>>

\* create_record raises AtProtocolError: backoff retries post_skeet until
\* max_tries calls have failed.
PostTransient ==
    /\ pc = "post"
    /\ postCalls' = postCalls + 1
    /\ postTries' = postTries + 1
    /\ IF postTries + 1 < max_tries
       THEN UNCHANGED <<pc, faults, raised>>
       ELSE ProcessFailed("AtProtocolError")
    /\ UNCHANGED <<redisVars, cursor, cycleVars, cur, sleeps, parent_post, post_uri, reply_ref,
                   current_retry, genCalls, stateVars, polls, fetchObs,
                   eventObs, otherVars>>

\* create_record raises an error backoff does not retry.
PostError ==
    /\ pc = "post"
    /\ postCalls' = postCalls + 1
    /\ ProcessFailed("Exception")
    /\ UNCHANGED <<redisVars, cursor, cycleVars, cur, sleeps, parent_post, post_uri, reply_ref,
                   current_retry, postTries, genCalls, stateVars, polls,
                   fetchObs, eventObs, otherVars>>

\* process_mention returned True: SADD, EXPIRE, processed_count += 1.
Commit ==
    /\ pc = "commit"
    /\ processed' = MarkedMembers(processed, cur.uri)
    /\ expiry' = MarkedExpiry(expiry, processed, redisCursor, cur.uri, now)
    /\ processed_count' = processed_count + 1
    /\ commits' = [commits EXCEPT ![cur.uri] = @ + 1]
    /\ markedAt' = [markedAt EXCEPT ![cur.uri] = now]
    /\ mentions' = Tail(mentions)
    /\ pc' = "loop"
    /\ AttemptDone
    /\ UNCHANGED <<redisCursor, now, cursor, response, fetchTries, skipped,
                   stateVars,
                   envVars, fetchObs, replies, failedAt, orphan, otherVars>>

\* redis_client.sadd raises.
CommitRedisError ==
    /\ pc = "commit"
    /\ faults < MaxFaults
    /\ faults' = faults + 1
    /\ CycleError
    /\ UNCHANGED <<redisVars, cursor, polls, fetchObs, eventObs, otherVars>>

\* The process dies; Redis and the platform keep what they hold.
Crash ==
    /\ pc # "down"
    /\ faults < MaxFaults
    /\ faults' = faults + 1
    /\ orphan' = IF pc = "commit" THEN [orphan EXCEPT ![cur.uri] = TRUE]
                 ELSE orphan
    /\ pc' = "down"
    /\ cursor' = NoCursor
    /\ CycleDone
    /\ AttemptDone
    /\ mentions_processed' = 0
    /\ last_check' = NoTime
    /\ last_error' = FALSE
    /\ lastReq' = NoCursor
    /\ lastResp' = NoCursor
    /\ incRun' = 0
    /\ cursorAtCrash' = <<cursor>>
    /\ UNCHANGED <<redisVars, polls, replies, commits, failedAt, markedAt,
                   otherVars>>

\* The service is constructed again.
Restart ==
    /\ pc = "down"
    /\ cursor' = InitialCursor(redisCursor)
    /\ pc' = "idle"
    /\ UNCHANGED <<redisVars, cycleVars, attemptVars, stateVars, envVars,
                   fetchObs, eventObs, otherVars>>

Next ==
    \/ StartCycle
    \/ \E ns \in Responses, c \in ResponseCursors(polls) : GetMentions(ns, c)
    \/ GetMentionsTransient
    \/ GetMentionsError
    \/ CheckEmpty
    \/ SkipProcessed
    \/ BeginProcess
    \/ CheckRedisError
    \/ EndCycle
    \/ \E found \in BOOLEAN : GetParentPost(found)
    \/ ReturnFalse
    \/ GenerateOk
    \/ GenerateTimeout
    \/ GenerateError
    \/ \E found \in BOOLEAN : PostOk(found)
    \/ PostTransient
    \/ PostError
    \/ Commit
    \/ CommitRedisError
    \/ Crash
    \/ Restart

Spec == Init /\ [][Next]_vars

\* ------------------------------------------------------------------------
\* The polling loop with /stop, shutdown and /start
\* ------------------------------------------------------------------------
\* Positions at which the task of continuous_mention_check is suspended and
\* the event loop runs other handlers: the sleep between two cycles and the
\* awaits of _make_api_call (the API call, the sleep before a retry).  The
\* calls to Bluesky and Redis are synchronous, _get_parent_post awaits
\* nothing that suspends.
\* Variant: the task also yields between post_skeet and SADD.
CancelPointsWithCommit == {"idle", "generate", "commit"}
CancelPoints == {"idle", "generate"}

\* stop_service / shutdown_event: is_running = False and
\* background_task.cancel(); CancelledError is raised at the await the task
\* is suspended in, passes every "except Exception" and ends the task.
StopService ==
    /\ pc \in CancelPoints
    /\ cancelled' = <<pc, IF cur = NoMention THEN None ELSE cur.uri>>
    /\ pc' = "stopped"
    /\ CycleDone
    /\ AttemptDone
    /\ UNCHANGED <<redisVars, cursor, stateVars, envVars, fetchObs, eventObs,
                   lastOp, cursorApiVars, limiterVars, schedVars, moreVars>>

\* start_service: a new task of continuous_mention_check on the same
\* MentionService.
StartService ==
    /\ pc = "stopped"
    /\ pc' = "idle"
    /\ cancelled' = <<>>
    /\ UNCHANGED <<redisVars, cursor, cycleVars, attemptVars, stateVars,
                   envVars, fetchObs, eventObs, lastOp, cursorApiVars,
                   limiterVars, schedVars, moreVars>>

NextStop ==
    \/ Next
    \/ StopService
    \/ StartService

SpecStop == Init /\ [][NextStop]_vars

\* ------------------------------------------------------------------------
\* The processed set on its own: marks and queries at arbitrary times
\* ------------------------------------------------------------------------
pipelineVars == <<cursor, pc, cycleVars, attemptVars, stateVars, envVars,
                  fetchObs, replies, failedAt, orphan>>

\* mentions_service.py lines 81-82 applied to uri u at the current time.
StoreMark(u) ==
    /\ commits[u] < MaxMarks
    /\ processed' = MarkedMembers(processed, u)
    /\ expiry' = MarkedExpiry(expiry, processed, redisCursor, u, now)
    /\ commits' = [commits EXCEPT ![u] = @ + 1]
    /\ markedAt' = [markedAt EXCEPT ![u] = now]
    /\ lastOp' = <<"mark", u>>
    /\ UNCHANGED <<redisCursor, now, pipelineVars, apiVars>>

\* A day passes; Redis drops the keys whose timeout has passed.
StoreTick ==
    /\ now < MaxDays * Day
    /\ now' = now + Day
    /\ processed' = MembersAt(processed, expiry, now + Day)
    /\ expiry' = ExpiryAt(expiry, now + Day)
    /\ lastOp' = <<"tick", None>>
    /\ UNCHANGED <<redisCursor, commits, markedAt, pipelineVars, apiVars>>

NextStore ==
    \/ \E u \in Ids : StoreMark(u)
    \/ StoreTick

SpecStore == Init /\ [][NextStore]_vars

\* ------------------------------------------------------------------------
\* The polling loop running for ever: a single poller, no crash, and a
\* platform that delivers the mention Kept in every response
\* ------------------------------------------------------------------------
Kept == "A"

LiveResponses ==
    {ns \in Responses :
        \E i \in 1..Len(ns) : ns[i].uri = Kept /\ ns[i].reason = "mention"}

\* continuous_mention_check: the loop begins another iteration; the count
\* of polls stops at MaxPolls.
StartCycleLive ==
    /\ pc = "idle"
    /\ polls' = IF polls < MaxPolls THEN polls + 1 ELSE polls
    /\ pc' = "fetch"
    /\ UNCHANGED <<redisVars, cursor, cycleVars, attemptVars, stateVars,
                   faults, fetchObs, eventObs, otherVars>>

FetchLive ==
    \E ns \in LiveResponses, c \in ResponseCursors(polls) : GetMentions(ns, c)

NextLive ==
    \/ StartCycleLive
    \/ FetchLive
    \/ GetMentionsTransient
    \/ GetMentionsError
    \/ CheckEmpty
    \/ SkipProcessed
    \/ BeginProcess
    \/ CheckRedisError
    \/ EndCycle
    \/ \E found \in BOOLEAN : GetParentPost(found)
    \/ ReturnFalse
    \/ GenerateOk
    \/ GenerateTimeout
    \/ GenerateError
    \/ \E found \in BOOLEAN : PostOk(found)
    \/ PostTransient
    \/ PostError
    \/ Commit
    \/ CommitRedisError

\* The event loop keeps running the polling task, and a fetch that is tried
\* again and again eventually gets its response.
SpecLive ==
    /\ Init
    /\ [][NextLive]_vars
    /\ WF_vars(NextLive)
    /\ SF_vars(FetchLive)

\* ------------------------------------------------------------------------
\* The cursor of BlueskyClient and two pollers that share the client: each
\* reads the cursor, fetches, and hands the cursor of its response to
\* set_cursor
\* ------------------------------------------------------------------------
serviceVars == <<redisVars, pc, cycleVars, attemptVars, stateVars, envVars,
                 fetchObs, eventObs, lastOp, sideVars>>

PlatformCursors == 1..MaxCursor

\* BlueskyClient.get_cursor_state()['cursor']
GetCursorState(c) == c

\* get_cursor_state is called by poller p.
CursorRead(p) ==
    /\ ppc[p] = "start"
    /\ base' = [base EXCEPT ![p] = GetCursorState(cursor)]
    /\ ppc' = [ppc EXCEPT ![p] = "read"]
    /\ UNCHANGED <<cursor, held, setCalls, setBy, serviceVars, limiterVars>>

\* The platform answers the fetch of poller p with a cursor past its base.
CursorFetched(p, c) ==
    /\ ppc[p] = "read"
    /\ c > base[p]
    /\ held' = [held EXCEPT ![p] = c]
    /\ ppc' = [ppc EXCEPT ![p] = "fetched"]
    /\ UNCHANGED <<cursor, base, setCalls, setBy, serviceVars, limiterVars>>

\* set_cursor is called by poller p with the cursor of its response.
CursorSet(p) ==
    /\ ppc[p] = "fetched"
    /\ setCalls < MaxSets
    /\ cursor' = SetCursor(held[p])
    /\ setCalls' = setCalls + 1
    /\ setBy' = <<p, base[p], cursor>>
    /\ ppc' = [ppc EXCEPT ![p] = "start"]
    /\ UNCHANGED <<base, held, serviceVars, limiterVars>>

NextCursor ==
    \E p \in Pollers :
        \/ CursorRead(p)
        \/ \E c \in PlatformCursors : CursorFetched(p, c)
        \/ CursorSet(p)

SpecCursor == Init /\ [][NextCursor]_vars

\* ------------------------------------------------------------------------
\* RateLimiter(max_requests = 3, window_minutes = 1) used by one caller
\* ------------------------------------------------------------------------
cursorSide == <<cursor, cursorApiVars>>

\* timedelta(minutes = window_minutes), in seconds
Window == window_minutes * 60

\* "ts > window_start"
InWindow(ts, window_start) == ts > window_start

WindowStart(t) == t - Window

\* The list comprehension of _wait_if_needed and get_remaining_requests.
Recent(list, t) == SelectSeq(list, LAMBDA ts : InWindow(ts, WindowStart(t)))

\* "self.request_timestamps[endpoint][0]"
\* Variant: the last element of the list.
NewestTimestamp(list) == list[Len(list)]
OldestTimestamp(list) == list[1]

WaitSeconds(list, t) == OldestTimestamp(list) + Window - t

\* The dictionary d with d[e] = list.
WithEntry(d, e, list) ==
    [x \in DOMAIN d \cup {e} |-> IF x = e THEN list ELSE d[x]]

\* Time _wait_if_needed sleeps for endpoint e at time t.
\* Variant: it never sleeps.
SleepTimeNone(d, e, t) == 0
SleepTime(d, e, t) ==
    IF e \notin DOMAIN d THEN 0
    ELSE IF Len(Recent(d[e], t)) >= max_requests
              /\ WaitSeconds(Recent(d[e], t), t) > 0
         THEN WaitSeconds(Recent(d[e], t), t)
         ELSE 0

\* request_timestamps as _wait_if_needed leaves it.
AfterWait(d, e, t) ==
    IF e \notin DOMAIN d THEN WithEntry(d, e, <<>>)
    ELSE WithEntry(d, e, Recent(d[e], t))

\* request_timestamps as _record_request leaves it.
AfterRecord(d, e, t) ==
    IF e \notin DOMAIN d THEN WithEntry(d, e, <<t>>)
    ELSE WithEntry(d, e, Append(d[e], t))

\* Value returned by get_remaining_requests.
RemainingRequests(d, e, t) ==
    IF e \notin DOMAIN d THEN max_requests
    ELSE IF max_requests - Len(Recent(d[e], t)) > 0
         THEN max_requests - Len(Recent(d[e], t))
         ELSE 0

\* request_timestamps as get_remaining_requests leaves it.
\* Variant: the lookup creates the entry of an endpoint not seen before.
AfterRemainingCreated(d, e) ==
    IF e \in DOMAIN d THEN d ELSE WithEntry(d, e, <<>>)
AfterRemaining(d, e) == d

TotalCalls == calls["default"] + calls["feed"]

\* wrapper, line 24: _wait_if_needed(endpoint), sleep included.
WaitIfNeeded(e) ==
    /\ lpc = "idle"
    /\ TotalCalls < MaxCalls
    /\ calls' = [calls EXCEPT ![e] = @ + 1]
    /\ endpoint' = e
    /\ request_timestamps' = AfterWait(request_timestamps, e, clock)
    /\ admitted' = AfterWait(request_timestamps, e, clock)[e]
    /\ wait_seconds' = SleepTime(request_timestamps, e, clock)
    /\ clock' = clock + SleepTime(request_timestamps, e, clock)
    /\ lpc' = "admitted"
    /\ outcome' = "admitted"
    /\ UNCHANGED <<remaining, serviceVars, cursorSide>>

\* wrapper, lines 25-27: func returns, _record_request, return result.
FuncReturns ==
    /\ lpc = "admitted"
    /\ request_timestamps' = AfterRecord(request_timestamps, endpoint, clock)
    /\ lpc' = "idle"
    /\ outcome' = "returned"
    /\ UNCHANGED <<clock, endpoint, calls, admitted, wait_seconds, remaining,
                   serviceVars, cursorSide>>

\* wrapper, line 25: func raises and the exception leaves the wrapper.
FuncRaises ==
    /\ lpc = "admitted"
    /\ lpc' = "idle"
    /\ outcome' = "raised"
    /\ UNCHANGED <<request_timestamps, clock, endpoint, calls, admitted,
                   wait_seconds, remaining, serviceVars, cursorSide>>

\* get_remaining_requests(e)
GetRemainingRequests(e) ==
    /\ lpc = "idle"
    /\ endpoint' = e
    /\ remaining' = RemainingRequests(request_timestamps, e, clock)
    /\ request_timestamps' = AfterRemaining(request_timestamps, e)
    /\ outcome' = "remaining"
    /\ UNCHANGED <<clock, lpc, calls, admitted, wait_seconds, serviceVars,
                   cursorSide>>

\* Arguments reset_limits is called with: an endpoint, the empty name, or
\* nothing (endpoint = None).
EmptyName == ""
ResetArgs == Endpoints \cup {EmptyName, None}

\* "if endpoint:"
Truthy(x) == x # None /\ x # EmptyName

\* d.pop(e, None)
Pop(d, e) == [x \in DOMAIN d \ {e} |-> d[x]]

\* request_timestamps as reset_limits leaves it.
AfterReset(d, arg) == IF Truthy(arg) THEN Pop(d, arg) ELSE <<>>

\* reset_limits(arg)
ResetLimits(arg) ==
    /\ lpc = "idle"
    /\ endpoint' = arg
    /\ request_timestamps' = AfterReset(request_timestamps, arg)
    /\ outcome' = "reset"
    /\ UNCHANGED <<clock, lpc, calls, admitted, wait_seconds, remaining,
                   serviceVars, cursorSide>>

\* Time passes, also while the wrapped function runs.
LimiterTick ==
    /\ clock < MaxClock
    /\ clock' = clock + ClockStep
    /\ outcome' = "tick"
    /\ UNCHANGED <<request_timestamps, lpc, endpoint, calls, admitted,
                   wait_seconds, remaining, serviceVars, cursorSide>>

NextLimiter ==
    \/ \E e \in Endpoints : WaitIfNeeded(e)
    \/ FuncReturns
    \/ FuncRaises
    \/ \E e \in Endpoints : GetRemainingRequests(e)
    \/ \E arg \in ResetArgs : ResetLimits(arg)
    \/ LimiterTick

SpecLimiter == Init /\ [][NextLimiter]_vars

\* ------------------------------------------------------------------------
\* SchedulerService: the jobs of main.py, each in a loop of its own on the
\* one event loop of the process
\* ------------------------------------------------------------------------
nonSchedVars == <<redisVars, cursor, pc, cycleVars, attemptVars, stateVars,
                  envVars, fetchObs, eventObs, lastOp, cursorApiVars,
                  limiterVars, stopVars, moreVars>>

\* The event loop runs coroutines only while no body holds the thread.
LoopFree == blocking = 0

Allocated == Cardinality({l \in LoopIds : loops[l].at # "none"})

\* A task that has finished: awaiting it does not suspend.
Done(lp, l) == lp[l].at \in {"ended", "cancelled"}

\* d[k] = v for a dict d
Put(d, k, v) == [x \in DOMAIN d \cup {k} |-> IF x = k THEN v ELSE d[x]]

\* asyncio.create_task(run_scheduled_task()): the task starts at the top of
\* run_scheduled_task when the event loop next runs it.
NewLoop(name) == [name |-> name, at |-> "new", timer |-> 0, cancel |-> FALSE,
                  last |-> "none"]

\* schedule_task(name, task, interval_minutes) applied to the scheduler
\* fields S; l is the task created.
ScheduleTask(S, name, interval_minutes, l) ==
    [intervals |-> Put(S.intervals, name, interval_minutes),
     last_run  |-> Put(S.last_run, name, minutes),
     tasks     |-> Put(S.tasks, name, l),
     loops     |-> [S.loops EXCEPT ![l] = NewLoop(name)]]

\* main.startup_event, called when the application starts and by
\* /scheduler/start when the scheduler is not running: start(), then
\* schedule_task for the two jobs.
StartupEvent ==
    /\ LoopFree
    /\ ~is_running
    /\ Allocated + Len(JobOrder) <= MaxLoops
    /\ is_running' = TRUE
    /\ LET S0 == [intervals |-> intervals, last_run |-> last_run,
                  tasks |-> tasks, loops |-> loops]
           S1 == ScheduleTask(S0, JobOrder[1], IntervalOf[JobOrder[1]],
                              Allocated + 1)
           S2 == ScheduleTask(S1, JobOrder[2], IntervalOf[JobOrder[2]],
                              Allocated + 2)
       IN /\ intervals' = S2.intervals
          /\ last_run' = S2.last_run
          /\ tasks' = S2.tasks
          /\ loops' = S2.loops
    /\ everScheduled' = everScheduled \cup Jobs
    /\ UNCHANGED <<minutes, blocking, stop_at, stop_task, interrupted, status,
                   nonSchedVars>>

\* A loop can take a step of its own: the thread is free and no cancel is
\* pending for it.
CanStep(l) == LoopFree /\ ~loops[l].cancel

\* "while self.is_running:" evaluated by loop l: the body is invoked, or
\* the loop ends.
WhileRunning(l) ==
    IF is_running
    THEN [loops EXCEPT ![l].at = "body"]
    ELSE [loops EXCEPT ![l].at = "ended", ![l].last = "none"]

\* run_scheduled_task begins.
LoopStart(l) ==
    /\ loops[l].at = "new"
    /\ CanStep(l)
    /\ loops' = WhileRunning(l)
    /\ UNCHANGED <<is_running, tasks, intervals, last_run, minutes, blocking,
                   stop_at, stop_task, interrupted, status, everScheduled,
                   nonSchedVars>>

\* The body enters a synchronous wait (time.sleep of the backoff decorator
\* or of RateLimiter._wait_if_needed) and holds the thread.
BodyBlocks(l) ==
    /\ loops[l].at = "body"
    /\ CanStep(l)
    /\ blocking' = l
    /\ UNCHANGED <<is_running, tasks, intervals, last_run, loops, minutes,
                   stop_at, stop_task, interrupted, status, everScheduled,
                   nonSchedVars>>

\* The synchronous wait is over.
BodyUnblocks(l) ==
    /\ blocking = l
    /\ blocking' = 0
    /\ UNCHANGED <<is_running, tasks, intervals, last_run, loops, minutes,
                   stop_at, stop_task, interrupted, status, everScheduled,
                   nonSchedVars>>

\* Position of loop l after its body raised an Exception.
\* Variant: the exception ends the loop.
AfterRaiseEnded == "ended"
AfterRaise == "sleep"

\* "await task()" returns: last_run is set, then the loop sleeps.
BodyReturns(l) ==
    /\ loops[l].at = "body"
    /\ CanStep(l)
    /\ last_run' = Put(last_run, loops[l].name, minutes)
    /\ loops' = [loops EXCEPT ![l].at = "sleep",
                              ![l].timer = IntervalOf[loops[l].name],
                              ![l].last = "returned"]
    /\ UNCHANGED <<is_running, tasks, intervals, minutes, blocking, stop_at,
                   stop_task, interrupted, status, everScheduled,
                   nonSchedVars>>

\* "await task()" raises an Exception: the assignment to last_run is
\* skipped, the exception is logged, then the loop sleeps.
BodyRaises(l) ==
    /\ loops[l].at = "body"
    /\ CanStep(l)
    /\ loops' = [loops EXCEPT ![l].at = AfterRaise,
                              ![l].timer = IntervalOf[loops[l].name],
                              ![l].last = "raised"]
    /\ UNCHANGED <<is_running, tasks, intervals, last_run, minutes, blocking, stop_at,
                   stop_task, interrupted, status, everScheduled,
                   nonSchedVars>>

\* The sleep of loop l has lasted interval_minutes.
Due(l) == loops[l].at = "sleep" /\ loops[l].timer = 0

\* The loop can go on after its sleep.
CanStart(l) == Due(l) /\ CanStep(l)

\* asyncio.sleep returns; the while condition is evaluated again.
SleepEnds(l) ==
    /\ CanStart(l)
    /\ loops' = WhileRunning(l)
    /\ UNCHANGED <<is_running, tasks, intervals, last_run, minutes, blocking,
                   stop_at, stop_task, interrupted, status, everScheduled,
                   nonSchedVars>>

\* Positions at which CancelledError reaches a loop that has begun: the
\* await inside the body it is suspended in, or its asyncio.sleep.
\* CancelledError is not an Exception: the except clause of
\* run_scheduled_task does not catch it.
LoopCancelled(l) ==
    /\ LoopFree
    /\ loops[l].cancel
    /\ ~Done(loops, l)
    /\ interrupted' = IF loops[l].at = "body" THEN interrupted \cup {l}
                      ELSE interrupted
    /\ loops' = [loops EXCEPT ![l].at = "cancelled", ![l].cancel = FALSE,
                              ![l].timer = 0, ![l].last = "none"]
    /\ UNCHANGED <<is_running, tasks, intervals, last_run, minutes, blocking,
                   stop_at, stop_task, status, everScheduled, nonSchedVars>>

\* The names of tasks in the order "for name, task in self.tasks.items()"
\* visits them.
TaskKeys(d) == SelectSeq(JobOrder, LAMBDA n : n \in DOMAIN d)

\* The for loop of stop() from item k on: task.cancel() and "await task"
\* for each item, up to the first task that has not finished, where stop()
\* is suspended; after the last item, tasks.clear().
RECURSIVE StopScan(_, _, _)
StopScan(k, d, lp) ==
    IF k > Len(TaskKeys(d))
    THEN [loops |-> lp, tasks |-> <<>>, stop_at |-> 0, stop_task |-> 0]
    ELSE LET l == d[TaskKeys(d)[k]]
         IN IF Done(lp, l)
            THEN StopScan(k + 1, d, lp)
            ELSE [loops |-> [lp EXCEPT ![l].cancel = TRUE], tasks |-> d,
                  stop_at |-> k, stop_task |-> l]

\* stop() is called (/scheduler/stop, shutdown_event): is_running = False,
\* then the for loop up to its first suspension.
StopBegin ==
    /\ LoopFree
    /\ stop_at = 0
    /\ is_running
    /\ is_running' = FALSE
    /\ LET R == StopScan(1, tasks, loops)
       IN /\ loops' = R.loops
          /\ tasks' = R.tasks
          /\ stop_at' = R.stop_at
          /\ stop_task' = R.stop_task
    /\ UNCHANGED <<intervals, last_run, minutes, blocking, interrupted,
                   status, everScheduled, nonSchedVars>>

\* The task stop() awaits has finished: the for loop goes on.
StopResume ==
    /\ LoopFree
    /\ stop_at > 0
    /\ Done(loops, stop_task)
    /\ LET R == StopScan(stop_at + 1, tasks, loops)
       IN /\ loops' = R.loops
          /\ tasks' = R.tasks
          /\ stop_at' = R.stop_at
          /\ stop_task' = R.stop_task
    /\ UNCHANGED <<is_running, intervals, last_run, minutes, blocking,
                   interrupted, status, everScheduled, nonSchedVars>>

\* Names get_task_status is asked about.
StatusNames == Jobs \cup {"cleanup"}

\* next_run of get_task_status.
\* Variant: the interval is counted from now.
StatusNextRunFromNow(lr, iv) == minutes + iv
StatusNextRun(lr, iv) == lr + iv

\* get_task_status(name)
TaskStatus(name) ==
    IF name \notin DOMAIN intervals
    THEN [status |-> "not_found"]
    ELSE [status |-> IF is_running THEN "running" ELSE "stopped",
          last_run |-> last_run[name],
          next_run |-> StatusNextRun(last_run[name], intervals[name]),
          interval_minutes |-> intervals[name]]

GetTaskStatus(name) ==
    /\ LoopFree
    /\ status' = <<name, TaskStatus(name)>>
    /\ UNCHANGED <<is_running, tasks, intervals, last_run, loops, minutes,
                   blocking, stop_at, stop_task, interrupted, everScheduled,
                   nonSchedVars>>

\* Sleeps of the loops after a minute more.
Slept(lp) ==
    [l \in LoopIds |->
        IF lp[l].at = "sleep" /\ lp[l].timer > 0
        THEN [lp[l] EXCEPT !.timer = @ - 1] ELSE lp[l]]

\* A minute passes.
SchedTick ==
    /\ minutes < MaxMinutes
    /\ minutes' = minutes + 1
    /\ loops' = Slept(loops)
    /\ UNCHANGED <<is_running, tasks, intervals, last_run, blocking, stop_at,
                   stop_task, interrupted, status, everScheduled,
                   nonSchedVars>>

NextSched ==
    \/ StartupEvent
    \/ \E l \in LoopIds : LoopStart(l)
    \/ \E l \in LoopIds : BodyBlocks(l)
    \/ \E l \in LoopIds : BodyUnblocks(l)
    \/ \E l \in LoopIds : BodyReturns(l)
    \/ \E l \in LoopIds : BodyRaises(l)
    \/ \E l \in LoopIds : SleepEnds(l)
    \/ \E l \in LoopIds : LoopCancelled(l)
    \/ StopBegin
    \/ StopResume
    \/ \E name \in StatusNames : GetTaskStatus(name)
    \/ SchedTick

SpecSched == Init /\ [][NextSched]_vars

\* The scheduler left running: no stop(), no synchronous wait, and time
\* that goes on for ever (the clock of the model stays at MaxMinutes).
SchedTickLive ==
    /\ minutes' = IF minutes < MaxMinutes THEN minutes + 1 ELSE minutes
    /\ loops' = Slept(loops)
    /\ UNCHANGED <<is_running, tasks, intervals, last_run, blocking, stop_at,
                   stop_task, interrupted, status, everScheduled,
                   nonSchedVars>>

\* A step of loop l.
LoopStep(l) ==
    \/ LoopStart(l)
    \/ BodyReturns(l)
    \/ BodyRaises(l)
    \/ SleepEnds(l)

NextSchedLive ==
    \/ StartupEvent
    \/ \E l \in LoopIds : LoopStep(l)
    \/ SchedTickLive

\* The event loop runs every task that is ready, and time passes.
SpecSchedLive ==
    /\ Init
    /\ [][NextSchedLive]_vars
    /\ WF_vars(StartupEvent)
    /\ WF_vars(SchedTickLive)
    /\ \A l \in LoopIds : WF_vars(LoopStep(l))

\* ------------------------------------------------------------------------
\* RateLimiter with two threads calling one wrapped function of endpoint
\* "default"
\* ------------------------------------------------------------------------
nonConcVars == <<redisVars, cursor, pc, cycleVars, attemptVars, stateVars,
                 envVars, fetchObs, eventObs, lastOp, cursorApiVars,
                 stopVars, schedVars, pollVars, backoffVars, trendVars>>

limiterRest == <<lpc, endpoint, calls, admitted, wait_seconds, outcome,
                 remaining>>

SharedEndpoint == "default"

\* Position of a caller when time.sleep of _wait_if_needed returns: the
\* function returns to wrapper, which goes on to func.
AfterSleep == "admitted"

\* wrapper line 24: _wait_if_needed up to its sleep.
CallerChecks(c) ==
    /\ callers[c].at = "idle"
    /\ Len(issued) < MaxIssued
    /\ request_timestamps' =
           AfterWait(request_timestamps, SharedEndpoint, clock)
    /\ callers' =
           IF SleepTime(request_timestamps, SharedEndpoint, clock) > 0
           THEN [callers EXCEPT ![c] =
                    [at |-> "sleeping",
                     wake |-> clock + SleepTime(request_timestamps,
                                                SharedEndpoint, clock)]]
           ELSE [callers EXCEPT ![c].at = "admitted"]
    /\ UNCHANGED <<clock, issued, limiterRest, nonConcVars>>

\* time.sleep(wait_seconds) returns.
CallerWakes(c) ==
    /\ callers[c].at = "sleeping"
    /\ clock >= callers[c].wake
    /\ callers' = [callers EXCEPT ![c] = [at |-> AfterSleep, wake |-> 0]]
    /\ UNCHANGED <<request_timestamps, clock, issued, limiterRest,
                   nonConcVars>>

\* wrapper line 25: func is called and issues its request.
CallerIssues(c) ==
    /\ callers[c].at = "admitted"
    /\ Len(issued) < MaxIssued
    /\ issued' = Append(issued, clock)
    /\ callers' = [callers EXCEPT ![c].at = "issued"]
    /\ UNCHANGED <<request_timestamps, clock, limiterRest, nonConcVars>>

\* wrapper lines 26-27: _record_request, return.
CallerRecords(c) ==
    /\ callers[c].at = "issued"
    /\ request_timestamps' =
           AfterRecord(request_timestamps, SharedEndpoint, clock)
    /\ callers' = [callers EXCEPT ![c].at = "idle"]
    /\ UNCHANGED <<clock, issued, limiterRest, nonConcVars>>

\* Time passes.
CallersTick ==
    /\ clock < MaxClock
    /\ clock' = clock + ClockStep
    /\ UNCHANGED <<request_timestamps, callers, issued, limiterRest,
                   nonConcVars>>

NextCallers ==
    \/ \E c \in Callers : CallerChecks(c)
    \/ \E c \in Callers : CallerWakes(c)
    \/ \E c \in Callers : CallerIssues(c)
    \/ \E c \in Callers : CallerRecords(c)
    \/ CallersTick

SpecCallers == Init /\ [][NextCallers]_vars

\* ------------------------------------------------------------------------
\* The tasks of continuous_mention_check under startup, /start, /stop and
\* shutdown (the cycle inside each task is the pipeline above)
\* ------------------------------------------------------------------------
nonPollVars == <<redisVars, cursor, pc, cycleVars, attemptVars, stateVars,
                 envVars, fetchObs, eventObs, lastOp, cursorApiVars,
                 limiterVars, stopVars, schedVars, concVars, backoffVars,
                 trendVars>>

Created == Cardinality({t \in PollTasks : poll_tasks[t].at # "none"})

\* asyncio.create_task(mention_service.continuous_mention_check()),
\* assigned to SERVICE_STATE["background_task"].
CreateTask ==
    /\ Created < MaxPollTasks
    /\ poll_tasks' = [poll_tasks EXCEPT ![Created + 1].at = "new"]
    /\ background_task' = Created + 1

\* background_task.cancel()
CancelTask(pt, t) ==
    IF t # 0 /\ pt[t].at \in {"new", "cycle", "sleep"}
    THEN [pt EXCEPT ![t].cancel = TRUE]
    ELSE pt

\* startup_event
StartupPoll ==
    /\ app = "init"
    /\ app' = "up"
    /\ CreateTask
    /\ UNCHANGED <<state_is_running, nonPollVars>>

\* What start_service tests before it creates a task.
MayStart == ~state_is_running

\* POST /start
StartRequest ==
    /\ app = "up"
    /\ IF MayStart
       THEN CreateTask
       ELSE UNCHANGED <<poll_tasks, background_task>>
    /\ UNCHANGED <<app, state_is_running, nonPollVars>>

\* POST /stop
StopRequest ==
    /\ app = "up"
    /\ IF state_is_running
       THEN /\ state_is_running' = FALSE
            /\ poll_tasks' = CancelTask(poll_tasks, background_task)
       ELSE UNCHANGED <<state_is_running, poll_tasks>>
    /\ UNCHANGED <<app, background_task, nonPollVars>>

\* shutdown_event
ShutdownPoll ==
    /\ app = "up"
    /\ app' = "down"
    /\ state_is_running' = FALSE
    /\ poll_tasks' = CancelTask(poll_tasks, background_task)
    /\ UNCHANGED <<background_task, nonPollVars>>

\* continuous_mention_check begins: is_running = True, then the first
\* cycle.
PollerBegins(t) ==
    /\ poll_tasks[t].at = "new"
    /\ ~poll_tasks[t].cancel
    /\ state_is_running' = TRUE
    /\ poll_tasks' = [poll_tasks EXCEPT ![t].at = "cycle"]
    /\ UNCHANGED <<app, background_task, nonPollVars>>

\* check_and_process_mentions returns; the task sleeps.
PollerCycleEnds(t) ==
    /\ poll_tasks[t].at = "cycle"
    /\ ~poll_tasks[t].cancel
    /\ poll_tasks' = [poll_tasks EXCEPT ![t].at = "sleep"]
    /\ UNCHANGED <<app, state_is_running, background_task, nonPollVars>>

\* asyncio.sleep(20) returns; 'while SERVICE_STATE["is_running"]'.
PollerSleepEnds(t) ==
    /\ poll_tasks[t].at = "sleep"
    /\ ~poll_tasks[t].cancel
    /\ poll_tasks' = [poll_tasks EXCEPT
                         ![t].at = IF state_is_running THEN "cycle"
                                   ELSE "ended"]
    /\ UNCHANGED <<app, state_is_running, background_task, nonPollVars>>

\* CancelledError reaches the task.
PollerCancelled(t) ==
    /\ poll_tasks[t].cancel
    /\ poll_tasks' = [poll_tasks EXCEPT ![t] =
                         [at |-> "cancelled", cancel |-> FALSE]]
    /\ UNCHANGED <<app, state_is_running, background_task, nonPollVars>>

NextPoll ==
    \/ StartupPoll
    \/ StartRequest
    \/ StopRequest
    \/ ShutdownPoll
    \/ \E t \in PollTasks : PollerBegins(t)
    \/ \E t \in PollTasks : PollerCycleEnds(t)
    \/ \E t \in PollTasks : PollerSleepEnds(t)
    \/ \E t \in PollTasks : PollerCancelled(t)

SpecPoll == Init /\ [][NextPoll]_vars

\* ------------------------------------------------------------------------
\* The operations of BlueskyClient under backoff.on_exception(expo,
\* AtProtocolError, max_tries=3)
\* ------------------------------------------------------------------------
nonBackoffVars == <<redisVars, cursor, pc, cycleVars, attemptVars, stateVars,
                    envVars, fetchObs, eventObs, lastOp, cursorApiVars,
                    limiterVars, stopVars, schedVars, concVars, pollVars,
                    trendVars>>

DecoratedOps == {"get_mentions", "post_skeet", "get_post", "get_feed"}

\* The except clause of the operation's body: get_post logs and returns
\* None, the others log and raise again.
Swallows(op) == op = "get_post"

\* What the decorator and the body make of an exception exc raised by the
\* platform call, after tries calls: "retry", or what the caller gets.
OnException(op, exc, tries) ==
    IF Swallows(op) THEN "None"
    ELSE IF exc = "AtProtocolError" /\ tries < max_tries THEN "retry"
    ELSE exc

\* The caller calls the operation.
BeginOp(op) ==
    /\ op_call.op = None
    /\ Len(op_log) < MaxOpLog
    /\ op_call' = [NoCall EXCEPT !.op = op]
    /\ UNCHANGED <<op_log, nonBackoffVars>>

Calling == op_call.op # None /\ op_call.got = "none"

\* The platform call returns; the operation returns its value.
PlatformReturns ==
    /\ Calling
    /\ op_call' = [op_call EXCEPT !.tries = @ + 1, !.err = "none",
                                  !.got = "value"]
    /\ UNCHANGED <<op_log, nonBackoffVars>>

\* The platform call raises exc.
PlatformRaises(exc) ==
    /\ Calling
    /\ LET r == OnException(op_call.op, exc, op_call.tries + 1)
       IN op_call' = [op_call EXCEPT !.tries = @ + 1, !.err = exc,
                                     !.got = IF r = "retry" THEN "none"
                                             ELSE r]
    /\ UNCHANGED <<op_log, nonBackoffVars>>

\* The caller has its answer.
EndOp ==
    /\ op_call.got # "none"
    /\ op_log' = Append(op_log, op_call)
    /\ op_call' = NoCall
    /\ UNCHANGED nonBackoffVars

NextBackoff ==
    \/ \E op \in DecoratedOps : BeginOp(op)
    \/ PlatformReturns
    \/ \E exc \in {"AtProtocolError", "Exception"} : PlatformRaises(exc)
    \/ EndOp

SpecBackoff == Init /\ [][NextBackoff]_vars

\* ------------------------------------------------------------------------
\* TrendAnalyzer.analyze_feed, cycle after cycle
\* ------------------------------------------------------------------------
nonTrendVars == <<redisVars, cursor, pc, cycleVars, attemptVars, stateVars,
                  envVars, fetchObs, eventObs, lastOp, cursorApiVars,
                  limiterVars, stopVars, schedVars, concVars, pollVars,
                  backoffVars>>

\* The bot's handle and the posts of the timeline: uri, author, timestamp.
Handle == "bot"
FeedPosts ==
    { [uri |-> "p1", author |-> "ann", timestamp |-> 1],
      [uri |-> "p2", author |-> "ann", timestamp |-> 2],
      [uri |-> "p3", author |-> "bob", timestamp |-> 3],
      [uri |-> "own", author |-> Handle, timestamp |-> 2] }

\* What get_feed can return: up to MaxFeed posts, no post twice.
Feeds ==
    { f \in UNION { [1..n -> FeedPosts] : n \in 0..MaxFeed } :
        \A i, j \in DOMAIN f : i # j => f[i] # f[j] }

\* _should_analyze_post
ShouldAnalyzePost(post, watermark) ==
    /\ ~(watermark # NoTime /\ post.timestamp <= watermark)
    /\ post.author # Handle

\* The posts analysis tasks are created for, in feed order (lines 84-86).
Selected(feed, watermark) ==
    SelectSeq(feed, LAMBDA post : ShouldAnalyzePost(post, watermark))

\* asyncio.gather: one result per task, in task order; _analyze_post
\* returns the analysis of its post, or None when it failed.  An analysis
\* is named by the uri of the post it was computed from.
Analyses(feed, watermark, ok) ==
    [i \in 1..Len(Selected(feed, watermark)) |->
        IF Selected(feed, watermark)[i].uri \in ok
        THEN Selected(feed, watermark)[i].uri ELSE None]

ShorterLen(a, b) == IF Len(a) < Len(b) THEN Len(a) ELSE Len(b)

\* The posts the results of gather are paired with (line 93).
PairedWith(feed, watermark) == feed

\* "for post, analysis in zip(...)": the pairs with an analysis.
AnalyzedPosts(feed, watermark, ok) ==
    LET posts == PairedWith(feed, watermark)
        res == Analyses(feed, watermark, ok)
        pairs == [i \in 1..ShorterLen(posts, res) |->
                     [post |-> posts[i], analysis |-> res[i]]]
    IN SelectSeq(pairs, LAMBDA e : e.analysis # None)

MaxTimestamp(entries) ==
    CHOOSE t \in {entries[i].post.timestamp : i \in DOMAIN entries} :
        \A i \in DOMAIN entries : entries[i].post.timestamp <= t

\* Lines 104-108.
WatermarkAfter(entries, watermark) ==
    IF entries # <<>> THEN MaxTimestamp(entries) ELSE watermark

\* analyze_feed: get_feed returned feed, and the analyses of the posts in
\* ok succeeded.
AnalyzeFeed(feed, ok) ==
    /\ cycles < MaxCycles
    /\ cycles' = cycles + 1
    /\ analyzed_posts' = AnalyzedPosts(feed, last_analyzed_timestamp, ok)
    /\ last_analyzed_timestamp' =
           WatermarkAfter(AnalyzedPosts(feed, last_analyzed_timestamp, ok),
                          last_analyzed_timestamp)
    /\ last_ok' = {Selected(feed, last_analyzed_timestamp)[i].uri :
                      i \in DOMAIN Selected(feed, last_analyzed_timestamp)}
                  \cap ok
    /\ analyzed' = analyzed \cup last_ok'
    /\ UNCHANGED nonTrendVars

\* analyze_feed: get_feed raised; the except clause returns [].
AnalyzeFeedFails ==
    /\ cycles < MaxCycles
    /\ cycles' = cycles + 1
    /\ analyzed_posts' = <<>>
    /\ last_ok' = {}
    /\ UNCHANGED <<last_analyzed_timestamp, analyzed, nonTrendVars>>

NextTrend ==
    \/ \E feed \in Feeds :
          \E ok \in SUBSET {feed[i].uri : i \in DOMAIN feed} :
              AnalyzeFeed(feed, ok)
    \/ AnalyzeFeedFails

SpecTrend == Init /\ [][NextTrend]_vars

\* ------------------------------------------------------------------------
\* Properties
\* ------------------------------------------------------------------------
MentionOf(u) == [uri |-> u, reply_to |-> ParentOf(u)]

\* C1: an id enters the processed set only in a processing attempt of that
\* id whose reply post has already returned successfully; hence every id in
\* the processed set has a reply that was posted.
C1_CommitOnlyAfterPost ==
    [][\A u \in Ids :
          (u \in processed' /\ u \notin processed) =>
              /\ cur.uri = u
              /\ post_uri # None
              /\ postCalls >= 1
              /\ replies[u] >= 1]_vars

C1_Witness ==
    \E u \in Ids :
        /\ pc = "loop"
        /\ u \in processed
        /\ processed_count = 1
        /\ replies[u] = 1
        /\ commits[u] = 1

\* C2: with a single poller an id in the processed set is never processed
\* again: no attempt is started for it and no reply is posted for it, also
\* when it is redelivered in a later fetch or twice in one batch; as long as
\* nothing has failed every id has exactly one reply once it is handled.
C2_NoReprocessing ==
    [][/\ \A u \in Ids : replies'[u] # replies[u] => u \notin processed
       /\ (cur' # cur /\ cur' # NoMention) => cur'.uri \notin processed
       /\ faults' = 0 =>
            \A u \in Ids :
                replies'[u] = IF u \in processed'
                                 \/ (pc' = "commit" /\ cur'.uri = u)
                              THEN 1 ELSE 0]_vars

\* A and B were handled by the first poll; the second poll delivered B and C,
\* B was passed over and C was processed.
C2_Witness ==
    /\ polls = 2
    /\ pc = "loop"
    /\ mentions = <<>>
    /\ skipped = {"B"}
    /\ processed_count = 1
    /\ processed = {"A", "B", "C"}
    /\ replies = [u \in Ids |-> 1]
    /\ faults = 0

\* C3: an attempt that fails in generation or posting commits nothing, and
\* when a later fetch delivers an id whose attempt failed and the dedup check
\* completes, process_mention is entered for it again.
C3_FailedNotMarkedAndRetried ==
    [][/\ processed' # processed => raised = None
       /\ pc' = "failed" => cur'.uri \notin processed'
       /\ pc = "failed" => processed' = processed
       /\ ( /\ pc = "loop"
            /\ mentions # <<>>
            /\ failedAt[Head(mentions).uri] > 0
            /\ Head(mentions).uri \notin processed
            /\ pc' \notin {"idle", "down"} )
          => (cur' = Head(mentions) /\ pc' \in {"parent", "generate"})]_vars

C3_Witness ==
    \E u \in Ids :
        /\ failedAt[u] > 0
        /\ failedAt[u] < polls
        /\ cur.uri = u
        /\ pc = "post"
        /\ u \notin processed

\* C4: when the process dies between the successful post for e and the
\* commit of e, e is not in the processed set, the next poll that delivers e
\* enters process_mention for it again, e is committed only after a second
\* reply, and no id is committed more than once.
C4_CrashBeforeCommitReprocesses ==
    [][/\ \A u \in Ids : commits'[u] <= 1
       /\ \A u \in Ids : (orphan'[u] /\ u \in processed') => replies'[u] >= 2
       /\ (pc = "commit" /\ pc' = "down") =>
              (orphan'[cur.uri] /\ cur.uri \notin processed')
       /\ ( /\ pc = "loop"
            /\ mentions # <<>>
            /\ orphan[Head(mentions).uri]
            /\ Head(mentions).uri \notin processed
            /\ pc' \notin {"idle", "down"} )
          => (cur' = Head(mentions) /\ pc' \in {"parent", "generate"})]_vars

C4_Witness ==
    \E u \in Ids :
        /\ orphan[u]
        /\ replies[u] = 2
        /\ commits[u] = 1
        /\ u \in processed

\* C5: generation that times out on each of its 3 attempts reaches the
\* processor as a TimeoutError; no post has been called in that attempt and
\* the id is not in the processed set.
C5_GenerationExhausted ==
    /\ raised = "TimeoutError" =>
          /\ pc = "failed"
          /\ current_retry = 3
          /\ genCalls = 3
          /\ postCalls = 0
          /\ post_uri = None
          /\ cur.uri \notin processed
    /\ current_retry >= 3 => raised = "TimeoutError"

C5_Witness ==
    /\ pc = "failed"
    /\ raised = "TimeoutError"
    /\ genCalls = 3

\* C6: marking an id leaves it reported as processed, and marking it a
\* second time leaves the store as the first mark left it.
C6_MarkIdempotent ==
    [][\A u \in Ids :
          lastOp' = <<"mark", u>> =>
              /\ Sismember(processed', u)
              /\ lastOp = <<"mark", u>> =>
                    (processed' = processed /\ expiry' = expiry)]_vars

C6_Witness ==
    \E u \in Ids :
        /\ lastOp = <<"mark", u>>
        /\ commits[u] = 2
        /\ Sismember(processed, u)

\* C7 (as claimed): an id marked at time T is reported processed at every
\* time before T + TTL and not processed at every time after T + TTL.
C7_PerEntryExpiry ==
    \A u \in Ids :
        markedAt[u] # NoTime =>
            /\ now < markedAt[u] + TTL => Sismember(processed, u)
            /\ now > markedAt[u] + TTL => ~Sismember(processed, u)

\* C8 (as claimed): every fetch requests notifications at the stored cursor,
\* and after a fetch with a non-empty result the stored cursor is the cursor
\* of the response.
C8_CursorFollowsResponse ==
    [][(pc = "fetch" /\ pc' = "fetched") =>
          /\ lastReq' = cursor
          /\ mentions' # <<>> => cursor' = lastResp']_vars

\* C9 (as claimed): after fetches whose responses carried cursors
\* c1 < c2 < c3 the stored cursor is c3.
C9_CursorReachesLast ==
    incRun >= 3 => cursor = lastResp

C11_StateSurvivesRestart ==
    [][/\ (pc = "down" \/ pc' = "down") => processed' = processed
       /\ (pc = "down" /\ pc' # "down") => cursor' = cursorAtCrash[1]
       /\ (cursorAtCrash # <<>> /\ pc = "fetch" /\ pc' = "fetched") =>
              lastReq' = cursorAtCrash[1]]_vars

\* C13 (as claimed): the record posted for a mention replies to the mention's
\* own uri, whether or not the mention has a parent post.
C13_ReplyTargetsEvent ==
    [][(pc = "post" /\ pc' = "commit") => reply_ref' = cur.uri]_vars

\* The loop of check_and_process_mentions is working on the head of mentions.
WorkingOnHead ==
    \/ pc \in {"parent", "generate", "post", "commit", "failed"}
    \/ pc = "loop" /\ mentions # <<>>

\* C14 (as claimed): a failure while one event of a batch is worked on leaves
\* that event out of the processed set and never ends the poll while a later
\* event of the batch is still unprocessed.
C14_FailureDoesNotAbortBatch ==
    [][/\ (pc = "failed" /\ pc' # "down") =>
              /\ pc' = "loop"
              /\ mentions' = Tail(mentions)
              /\ processed' = processed
              /\ cur.uri \notin processed'
       /\ (WorkingOnHead /\ pc' = "idle") =>
              \A i \in 2..Len(mentions) : mentions[i].uri \in processed]_vars

\* C15: when the parent of an event is not resolved, process_mention goes on
\* to generation with parent context None, and once the reply is posted the
\* event is committed by the step that follows.
C15_ParentFailureDoesNotAbort ==
    [][/\ (pc = "parent" /\ pc' # "down") =>
              /\ pc' = "generate"
              /\ raised' = None
              /\ parent_post' \in {None, cur.reply_to}
       /\ (pc = "generate" /\ cur.reply_to # None /\ parent_post = None) =>
              pc' \in {"generate", "post", "failed", "down"}
       /\ ( /\ pc = "commit"
            /\ cur.reply_to # None
            /\ parent_post = None
            /\ pc' = "loop" )
          => (cur.uri \in processed' /\ replies[cur.uri] >= 1)]_vars

C15_Witness ==
    /\ pc = "commit"
    /\ cur.reply_to # None
    /\ parent_post = None
    /\ genCalls >= 1
    /\ post_uri # None
    /\ replies[cur.uri] = 1

\* The notifications of a response whose reason is "mention", as events, in
\* the order of the response.
MentionReason(ns) == SelectSeq(ns, LAMBDA n : n.reason = "mention")
EventsOf(ns) ==
    [i \in 1..Len(MentionReason(ns)) |->
        [uri |-> MentionReason(ns)[i].uri,
         reply_to |-> MentionReason(ns)[i].parent]]
IsSuffix(s, t) ==
    \E k \in 0..Len(t) : s = [i \in 1..(Len(t) - k) |-> t[k + i]]

\* C16: the batch of a poll is the mention notifications of the response in
\* the order of the response; the loop takes them one at a time from the
\* front, hands to process_mention exactly those not in the processed set and
\* nothing else, and a poll that ends without an error has gone through all
\* of them.
C16_HandedAreUnprocessedMentionsInOrder ==
    [][/\ (pc = "fetch" /\ pc' = "fetched") => mentions' = EventsOf(response')
       /\ IsSuffix(mentions', EventsOf(response'))
       /\ (pc = "loop" /\ mentions # <<>> /\ pc' \notin {"idle", "down"}) =>
              IF Head(mentions).uri \in processed
              THEN cur' = NoMention /\ mentions' = Tail(mentions)
              ELSE cur' = Head(mentions) /\ mentions' = mentions
       /\ (cur' # cur /\ cur' # NoMention) =>
              (pc = "loop" /\ mentions # <<>> /\ cur' = Head(mentions))
       /\ (pc = "loop" /\ pc' = "idle" /\ faults' = faults) =>
              mentions = <<>>]_vars

\* The second poll delivered a processed mention and then an unprocessed one:
\* the first was passed over, the second is being processed.
C16_Witness ==
    /\ polls = 2
    /\ Len(response) = 2
    /\ response[1].reason = "mention"
    /\ response[1].uri \in processed
    /\ skipped = {response[1].uri}
    /\ pc = "generate"
    /\ cur.uri = response[2].uri
    /\ cur.uri \notin processed

\* C12 (as claimed): a set_cursor whose caller fetched from a cursor other
\* than the one stored at the time of the call leaves the stored cursor
\* unchanged.
C12_StaleAdvanceRejected ==
    [][(setCalls' # setCalls /\ setBy'[2] # cursor) => cursor' = cursor]_vars

\* C17: with a single poller, no crash and finitely many failures, a mention
\* that every response delivers is eventually replied to and in the processed
\* set.
C17_KeptMentionEventuallyCommitted ==
    <>(Kept \in processed /\ replies[Kept] >= 1)

\* The mention was committed after an attempt for it had failed.
C17_Witness ==
    /\ Kept \in processed
    /\ replies[Kept] >= 1
    /\ failedAt[Kept] > 0
    /\ polls >= 2

\* The timestamps of a list that lie inside the window that ends at time t.
InsideWindow(list, t) == {list[i] : i \in {j \in 1..Len(list) : list[j] > t - Window}}
Earliest(S) == CHOOSE x \in S : \A y \in S : x <= y
ListOf(d, e) == IF e \in DOMAIN d THEN d[e] ELSE <<>>
FullWindow(d, e, t) ==
    Cardinality({j \in 1..Len(ListOf(d, e)) : ListOf(d, e)[j] > t - Window})
        >= max_requests

\* C18: an acquisition that finds max_requests timestamps inside the window
\* is suspended for (oldest of them) + window - now, which is positive, and
\* any other acquisition is not suspended; so the first max_requests calls
\* on an endpoint are admitted without delay, and the call after them, when
\* they are all still inside the window, waits window - (now - first).
C18_FullWindowDelay ==
    [][(lpc = "idle" /\ lpc' = "admitted") =>
          /\ IF FullWindow(request_timestamps, endpoint', clock)
             THEN /\ wait_seconds' =
                        Earliest(InsideWindow(request_timestamps[endpoint'],
                                              clock)) + Window - clock
                  /\ wait_seconds' > 0
             ELSE wait_seconds' = 0
          /\ clock' = clock + wait_seconds'
          /\ calls'[endpoint'] <= max_requests => wait_seconds' = 0
          /\ ( /\ calls'[endpoint'] = max_requests + 1
               /\ Len(ListOf(request_timestamps, endpoint')) = max_requests
               /\ request_timestamps[endpoint'][1] > clock - Window )
             => wait_seconds' =
                    Window - (clock - request_timestamps[endpoint'][1])]_vars

\* The fourth call in a row found the three before it inside the window,
\* the first of them 20 seconds old.
C18_Witness ==
    /\ lpc = "admitted"
    /\ calls[endpoint] = max_requests + 1
    /\ wait_seconds = Window - ClockStep
    /\ Len(admitted) = max_requests

\* C19 (as claimed): a call that left admission adds exactly one timestamp
\* to the list of its endpoint, whether the wrapped function returns or
\* raises.
C19_AdmittedIsRecorded ==
    [][(lpc = "admitted" /\ lpc' = "idle") =>
          /\ Len(request_timestamps'[endpoint]) = Len(admitted) + 1
          /\ \A e \in DOMAIN request_timestamps \ {endpoint} :
                request_timestamps'[e] = request_timestamps[e]]_vars

\* C20: get_remaining_requests changes nothing of the limiter and returns
\* max(0, max_requests - timestamps of the endpoint inside the window), which
\* is max_requests for an endpoint that has no list.
C20_RemainingIsPureRead ==
    [][outcome' = "remaining" =>
          /\ request_timestamps' = request_timestamps
          /\ clock' = clock
          /\ lpc' = lpc
          /\ remaining' >= 0
          /\ remaining' =
                IF Cardinality({j \in 1..Len(ListOf(request_timestamps,
                                                     endpoint')) :
                        ListOf(request_timestamps, endpoint')[j]
                            > clock - Window}) >= max_requests
                THEN 0
                ELSE max_requests
                     - Cardinality({j \in 1..Len(ListOf(request_timestamps,
                                                         endpoint')) :
                           ListOf(request_timestamps, endpoint')[j]
                               > clock - Window})
          /\ endpoint' \notin DOMAIN request_timestamps =>
                remaining' = max_requests]_vars

\* The list of the endpoint holds three timestamps, one of them outside the
\* window and still in the list after the call, which returned 1.
C20_Witness ==
    /\ outcome = "remaining"
    /\ endpoint \in DOMAIN request_timestamps
    /\ Len(request_timestamps[endpoint]) = max_requests
    /\ request_timestamps[endpoint][1] <= clock - Window
    /\ remaining = 1

\* C21 (as claimed): reset_limits(e) with an endpoint e removes the list of
\* e and leaves the list of every other endpoint as it was; reset_limits()
\* removes every list; after either, an endpoint whose list was removed
\* reports max_requests remaining and its next acquisition does not wait.
C21_ResetClearsExactly ==
    [][outcome' = "reset" =>
          /\ IF endpoint' # None
             THEN /\ endpoint' \notin DOMAIN request_timestamps'
                  /\ \A e \in DOMAIN request_timestamps \ {endpoint'} :
                        /\ e \in DOMAIN request_timestamps'
                        /\ request_timestamps'[e] = request_timestamps[e]
             ELSE DOMAIN request_timestamps' = {}
          /\ \A e \in Endpoints \ DOMAIN request_timestamps' :
                /\ RemainingRequests(request_timestamps', e, clock')
                       = max_requests
                /\ SleepTime(request_timestamps', e, clock') = 0]_vars

\* A step in which the fetch or the process step issues an outbound call:
\* list_notifications, get_post, the generation API, create_record.
OutboundCall ==
    \/ pc = "fetch" /\ pc' # "down"
    \/ pc = "parent" /\ pc' # "down"
    \/ genCalls' = genCalls + 1
    \/ postCalls' = postCalls + 1

\* C22 (as claimed): every outbound call of the fetch and process steps,
\* each retry included, is issued by a caller the rate limiter has admitted.
C22_CallsPassAdmission ==
    [][OutboundCall => lpc = "admitted"]_vars

\* C23: _make_api_call issues at most 3 calls in one attempt, issues none
\* after a call succeeded or an error propagated, and an error other than a
\* timeout propagates with the call that raised it, no sleep added.
C23_GeneratorRetryBounded ==
    /\ [](genCalls <= 3)
    /\ [][genCalls' > genCalls =>
              /\ pc = "generate"
              /\ raised = None
              /\ genCalls' = genCalls + 1]_vars
    /\ [][(pc = "generate" /\ pc' = "post") => sleeps' = sleeps]_vars
    /\ [][(pc = "generate" /\ raised' = "Exception") =>
              /\ pc' = "failed"
              /\ sleeps' = sleeps
              /\ current_retry' = current_retry]_vars
    /\ [](raised = "TimeoutError" => genCalls = 3)

\* A timeout was retried after a sleep, and the error of the second call,
\* not a timeout, ended the attempt there.
C23_Witness ==
    /\ pc = "failed"
    /\ raised = "Exception"
    /\ genCalls = 2
    /\ sleeps = <<1>>

\* C24 (as claimed): the k-th delay slept by a retried call is the first
\* delay times 2^(k-1).
C24_DelayDoubles ==
    [][Len(sleeps') > Len(sleeps) =>
          sleeps'[Len(sleeps')] = sleeps'[1] * 2 ^ (Len(sleeps') - 1)]_vars

\* C30: when the polling task is cancelled, the event in process_mention
\* has no reply posted by this attempt and is not in the processed set, no
\* event sits between a successful post and its SADD, and the step itself
\* changes neither the replies nor the processed set.
C30_StopNeverHalfCommits ==
    [][(pc # "stopped" /\ pc' = "stopped") =>
          /\ pc # "commit"
          /\ post_uri = None
          /\ postCalls = 0
          /\ cur # NoMention => ~Sismember(processed', cur.uri)
          /\ processed' = processed
          /\ replies' = replies
          /\ commits' = commits]_vars

\* The loop was stopped while the reply to B was being generated, after A
\* of the same batch had been replied to and committed.
C30_Witness ==
    /\ pc = "stopped"
    /\ cancelled = <<"generate", "B">>
    /\ Sismember(processed, "A")
    /\ replies["A"] = 1
    /\ replies["B"] = 0

\* C25: in a scheduler left running every loop that was created invokes
\* its body again and again, for ever, and an invocation that raised is
\* always followed by another one.
C25_RaisingBodyInvokedAgain ==
    \A l \in LoopIds :
        /\ (loops[l].at # "none") ~> (loops[l].at = "body")
        /\ (loops[l].at = "sleep" /\ loops[l].last = "raised")
               ~> (loops[l].at = "body")

\* The body of the first job is running again after an invocation that
\* raised.
C25_Witness ==
    /\ is_running
    /\ loops[1].at = "body"
    /\ loops[1].last = "raised"

\* C26 (as claimed): when an invocation of a body ends, returning or
\* raising, last_run of the job is the time it ended.
C26_LastRunAfterEveryInvocation ==
    [][\A l \in LoopIds :
          (loops[l].at = "body" /\ loops'[l].at = "sleep") =>
              last_run'[loops[l].name] = minutes']_vars

\* C27 (as claimed): a cancel of stop() ends a loop only in its sleep or
\* before its first invocation, never while its body is running.
C27_StopLetsBodyFinish ==
    [][\A l \in LoopIds :
          (loops[l].at # "cancelled" /\ loops'[l].at = "cancelled") =>
              loops[l].at \in {"new", "sleep"}]_vars

\* C28: get_task_status answers not_found for a name never scheduled, and
\* for a scheduled name the last_run of the job, next_run = last_run +
\* interval, and running or stopped as is_running says.
C28_StatusOfTask ==
    [][status' # status =>
          LET name == status'[1]
              r == status'[2]
          IN IF name \notin everScheduled
             THEN r = [status |-> "not_found"]
             ELSE /\ r.last_run = last_run[name]
                  /\ r.next_run = last_run[name] + IntervalOf[name]
                  /\ r.status = IF is_running THEN "running" ELSE "stopped"
      ]_vars

\* The status of a job asked after stop(), its body having returned at
\* minute 1.
C28_Witness ==
    /\ status # <<>>
    /\ status[1] = "trend_analysis"
    /\ status[2].status = "stopped"
    /\ status[2].last_run = 1
    /\ status[2].next_run = 3
    /\ minutes = 2

\* A loop is waiting: in its sleep between two invocations, or in a wait
\* inside its body.
Waiting(l) == loops[l].at = "sleep" \/ blocking = l

\* C29 (as claimed): while a loop waits, another loop whose sleep is over
\* can start its invocation.
C29_WaitsDoNotStall ==
    \A a, b \in LoopIds :
        (a # b /\ Waiting(a) /\ Due(b) /\ ~loops[b].cancel) => CanStart(b)

\* Number of timestamps of list in the window of length Window that ends
\* at t, the window as _wait_if_needed takes it: window_start < ts <= t.
CountInWindow(list, t) ==
    Cardinality({i \in 1..Len(list) :
                    InWindow(list[i], WindowStart(t)) /\ list[i] <= t})

\* C31: with one sequential caller, the list of every endpoint is in
\* non-decreasing order and no window of length Window holds more than
\* max_requests of its timestamps.
C31_WindowBoundAndOrder ==
    \A e \in DOMAIN request_timestamps :
        LET list == request_timestamps[e]
        IN /\ \A i \in 1..Len(list) : \A j \in i..Len(list) :
                  list[i] <= list[j]
           /\ \A i \in 1..Len(list) :
                  CountInWindow(list, list[i]) <= max_requests

\* A call was delayed by a full window and recorded: the list holds
\* max_requests + 1 timestamps, the first of them a window older than
\* the last.
C31_Witness ==
    /\ "default" \in DOMAIN request_timestamps
    /\ Len(request_timestamps["default"]) = max_requests + 1
    /\ wait_seconds > 0
    /\ outcome = "returned"

\* C32 (as claimed): a caller that slept checks the window again before
\* it calls func, and whatever the interleaving of the callers no window
\* of length Window holds more than max_requests issued requests.
C32_ConcurrentCallersBounded ==
    /\ [][\A c \in Callers :
             (callers[c].at = "sleeping" /\ callers'[c].at # "sleeping") =>
                 callers'[c].at = "idle"]_vars
    /\ [](\A i \in 1..Len(issued) :
             CountInWindow(issued, issued[i]) <= max_requests)

\* A loop that will evaluate its while condition again: it has a task that
\* has not finished and no cancel pending.
Live(l) == loops[l].at \in {"new", "body", "sleep"} /\ ~loops[l].cancel

\* C33 (as claimed): at any time at most one live loop per job name.
C33_OneLiveLoopPerName ==
    \A a, b \in LoopIds :
        (a # b /\ Live(a) /\ Live(b)) => loops[a].name # loops[b].name

\* A step in which stop() returns: from its last await, or at once when it
\* found nothing to await.
StopReturns ==
    \/ stop_at > 0 /\ stop_at' = 0
    \/ is_running /\ ~is_running' /\ stop_at' = 0

\* C34 (as claimed): when stop() returns, is_running is false, tasks is
\* empty and no loop is live.
C34_StopLeavesNothingRunning ==
    [][StopReturns =>
          /\ ~is_running'
          /\ DOMAIN tasks' = {}
          /\ \A l \in LoopIds :
                 loops'[l].at \notin {"new", "body", "sleep"}]_vars

\* C35 (as claimed): when get_task_status answers 'running' for a name, a
\* live loop of that name exists.
C35_RunningMeansLiveLoop ==
    [][(status' # status /\ status'[2].status = "running") =>
          \E l \in LoopIds : Live(l) /\ loops[l].name = status'[1]]_vars

\* A task of continuous_mention_check that polls or will poll.
AlivePoller(t) ==
    poll_tasks[t].at \in {"new", "cycle", "sleep"} /\ ~poll_tasks[t].cancel

\* C36 (as claimed): at any time at most one task of
\* continuous_mention_check is alive.
C36_SinglePollingLoop ==
    Cardinality({t \in PollTasks : AlivePoller(t)}) <= 1

\* C37 (as claimed): a decorated operation whose platform call raised
\* AtProtocolError is called again until 3 calls were made, and its caller
\* learns of the failure only from the third.
C37_BackoffThreeAttempts ==
    [][(op_call'.err = "AtProtocolError" /\ op_call'.tries < 3) =>
          op_call'.got = "none"]_vars

\* C38 (as claimed): when a poll cycle ends, however it ends,
\* mentions_processed has grown by the number of ids the cycle added to
\* the processed set.
C38_CounterCountsEveryCommit ==
    [][(pc \notin {"idle", "down"} /\ pc' = "idle") =>
          mentions_processed' = mentions_processed + processed_count]_vars

\* C39 (as claimed): over the cycles of analyze_feed the watermark never
\* decreases, and no post analyzed with success in one cycle is analyzed
\* again in a later one.
C39_WatermarkMonotone ==
    [][cycles' # cycles =>
          /\ last_analyzed_timestamp' >= last_analyzed_timestamp
          /\ last_ok' \cap analyzed = {}]_vars

====
